---- MODULE Spec2Model ----
(***************************************************************************)
(* Model of the semantic-version-bump action (src/src/index.ts and         *)
(* src/src/bump.ts): the commit classifier (whatBump), the memoized        *)
(* dependency propagation (calculatePackagesUpdate, getPackageBump,        *)
(* calculateBump) with its promises, the version calculation, the          *)
(* changelog rendering and the file and output writes of main().           *)
(*                                                                         *)
(* Bump levels are the numbers of the source: 0 major, 1 minor, 2 patch,   *)
(* 3 none.  A text built by the program is the sequence of its lines, each  *)
(* ended by a newline; a file's content is the array split('\n') yields.   *)
(***************************************************************************)
EXTENDS Integers, Sequences, FiniteSets, TLC

\* ------------------------------------------------------------------ bounds

\* longest commit history drawn for one package in the history scenarios
MaxCommits == 2
\* largest component of a version drawn in the version scenarios
MaxVer == 1
\* most dependency entries (internal or external) in one run's manifests
MaxEdges == 3
\* largest changelog-start-at drawn in the changelog scenarios
MaxStart == 2

\* --------------------------------------------------------------- constants

\* bump levels, src/src/index.ts:97-101 and :190
Major == 0
Minor == 1
Patch == 2
NoBump == 3

\* ------------------------------------------------------------------ inputs

\* package names of a run, in the order of the `packages` input
Names == <<"a", "b", "c">>
NameSet == {Names[i] : i \in 1..Len(Names)}
\* a dependency that is no package of the run
External == "x"
RootName == "root"

\* commit types and the breaking-change header marker
CommitTypes == {"feat", "fix", "refactor", "patch", "chore"}
Commits == [type : CommitTypes, breaking : BOOLEAN]

Commit(t, b) == [type |-> t, breaking |-> b]

RECURSIVE SeqsUpTo(_, _)
SeqsUpTo(S, n) ==
    IF n = 0 THEN {<<>>}
    ELSE LET shorter == SeqsUpTo(S, n - 1)
         IN  shorter \cup {Append(s, x) : s \in {t \in shorter : Len(t) = n - 1}, x \in S}

\* the histories drawn in the scenarios that vary the graph
RunHistories ==
    { <<Commit("chore", FALSE)>>,
      <<Commit("fix", FALSE)>>,
      <<Commit("feat", FALSE)>>,
      <<Commit("feat", TRUE)>> }

\* versions: a semantic version x.y.z, a string semver cannot parse, and the
\* null that semver's inc returns
SemVer(x, y, z) == [kind |-> "semver", v |-> <<x, y, z>>]
Garbage == [kind |-> "garbage", v |-> <<>>]
Null == [kind |-> "null", v |-> <<>>]
AllSemVers == {SemVer(x, y, z) : x \in 0..MaxVer, y \in 0..MaxVer, z \in 0..MaxVer}

\* an absent value (undefined) is the empty sequence, a present one <<v>>
Undefined == <<>>
Some(v) == <<v>>
Coalesce(opt, d) == IF opt = Undefined THEN d ELSE opt[1]

Min(a, b) == IF a <= b THEN a ELSE b

\* --------------------------------------------------------- pure functions

IsFeat(c) == c.type = "feat"
\* only the type fix counts as a fix
IsFixOnly(c) == c.type = "fix"

\* a feat commit counts as a fix as well
IsFixOrFeat(c) == c.type = "fix" \/ c.type = "refactor" \/ c.type = "feat"

\* src/src/index.ts:94
IsFix(c) == c.type = "fix" \/ c.type = "refactor"
IsBreaking(c) == c.breaking

EmptyReasons == [deps |-> <<>>, breakings |-> <<>>, feats |-> <<>>, fixes |-> <<>>]

\* the feat test comes before the breaking test
WhatBumpFeatFirst(comments) ==
    LET feats == SelectSeq(comments, IsFeat)
        fixes == SelectSeq(comments, IsFix)
        breakings == SelectSeq(comments, IsBreaking)
        reasons == [deps |-> <<>>, breakings |-> breakings, feats |-> feats, fixes |-> fixes]
    IN  IF \E i \in 1..Len(comments) : IsFeat(comments[i])
        THEN [level |-> Some(Minor), reasons |-> Some(reasons)]
        ELSE IF \E i \in 1..Len(comments) : IsBreaking(comments[i])
        THEN [level |-> Some(Major), reasons |-> Some(reasons)]
        ELSE IF \E i \in 1..Len(comments) : IsFix(comments[i])
        THEN [level |-> Some(Patch), reasons |-> Some(reasons)]
        ELSE [level |-> Undefined, reasons |-> Undefined]

\* whatBump, src/src/index.ts:92-104; the empty object is a recommendation
\* with neither level nor reasons
WhatBump(comments) ==
    LET feats == SelectSeq(comments, IsFeat)
        fixes == SelectSeq(comments, IsFix)
        breakings == SelectSeq(comments, IsBreaking)
        reasons == [deps |-> <<>>, breakings |-> breakings, feats |-> feats, fixes |-> fixes]
    IN  IF \E i \in 1..Len(comments) : IsBreaking(comments[i])
        THEN [level |-> Some(Major), reasons |-> Some(reasons)]
        ELSE IF \E i \in 1..Len(comments) : IsFeat(comments[i])
        THEN [level |-> Some(Minor), reasons |-> Some(reasons)]
        ELSE IF \E i \in 1..Len(comments) : IsFix(comments[i])
        THEN [level |-> Some(Patch), reasons |-> Some(reasons)]
        ELSE [level |-> Undefined, reasons |-> Undefined]

\* the first two cases are swapped
GetReleaseTypeSwapped(level) ==
    CASE level = 0 -> "minor"
      [] level = 1 -> "major"
      [] level = 2 -> "patch"
      [] OTHER -> ""

\* getReleaseType, src/src/index.ts:160-170
GetReleaseType(level) ==
    CASE level = 0 -> "major"
      [] level = 1 -> "minor"
      [] level = 2 -> "patch"
      [] OTHER -> ""

\* semver's inc as called at src/src/index.ts:192: null for a version that
\* does not parse
Inc(version, releaseType) ==
    IF version.kind # "semver" THEN Null
    ELSE LET v == version.v
         IN  CASE releaseType = "major" -> SemVer(v[1] + 1, 0, 0)
               [] releaseType = "minor" -> SemVer(v[1], v[2] + 1, 0)
               [] releaseType = "patch" -> SemVer(v[1], v[2], v[3] + 1)
               [] OTHER -> Null

\* a dependency caps the level at patch instead of raising it to patch
BumpLevelCapped(suggestion, depsUpdates) ==
    IF Len(depsUpdates) > 0
    THEN (IF Coalesce(suggestion.level, 3) < 2 THEN 2 ELSE Coalesce(suggestion.level, 3))
    ELSE Coalesce(suggestion.level, 3)

\* the dependencies are not looked at
BumpLevelOwn(suggestion, depsUpdates) == Coalesce(suggestion.level, 3)

\* src/src/index.ts:190
BumpLevel(suggestion, depsUpdates) ==
    Min(Coalesce(suggestion.level, 3), IF Len(depsUpdates) > 0 THEN 2 ELSE 3)

\* src/src/index.ts:191-192 and :272-273
NewVersion(version, level) ==
    LET releaseType == GetReleaseType(level)
    IN  IF releaseType # "" THEN Inc(version, releaseType) ELSE version

\* src/src/index.ts:197
DepNote(dep) == [name |-> dep.name, releaseType |-> GetReleaseType(dep.bumpLevel)]

\* src/src/index.ts:193-199
Reasons(suggestion, depsUpdates) ==
    LET own == Coalesce(suggestion.reasons, EmptyReasons)
    IN  [own EXCEPT !.deps = own.deps \o [i \in 1..Len(depsUpdates) |-> DepNote(depsUpdates[i])]]

\* ------------------------------------------------------------- changelog

\* a text built by string concatenation is the sequence of its lines, each
\* ended by a newline: '' is <<>>; split('\n') of it adds the last, empty, piece
Split(lines) == lines \o <<"">>

\* setOutput's rendering of a value (src/src/index.ts:292, :299): a string as
\* it is, null as the empty string
OutputValue(version) ==
    CASE version.kind = "semver" ->
            ToString(version.v[1]) \o "." \o ToString(version.v[2]) \o "." \o ToString(version.v[3])
      [] version.kind = "garbage" -> "not-a-version"
      [] OTHER -> ""

\* the template rendering of a version: null prints as "null"
VersionStr(version) ==
    CASE version.kind = "semver" ->
            ToString(version.v[1]) \o "." \o ToString(version.v[2]) \o "." \o ToString(version.v[3])
      [] version.kind = "garbage" -> "not-a-version"
      [] OTHER -> "null"

\* log, src/src/index.ts:113-116: one line per commit; the commit's type and
\* marker stand for its scope, subject and hash
Log(reason) == "- " \o reason.type \o (IF reason.breaking THEN " (BREAKING CHANGE)" ELSE "")

LogAll(reasons) == [i \in 1..Len(reasons) |-> Log(reasons[i])]

\* src/src/index.ts:143
DepLine(d) == "- Dependency " \o d.name \o " bump **" \o d.releaseType \o "**"

\* renderChangelog, src/src/index.ts:118-147
RenderChangelog(update, dedicated) ==
    LET reasons == update.reasons
        padding == IF dedicated THEN "###" ELSE "####"
        head == IF dedicated THEN "## " \o VersionStr(update.newVersion)
                ELSE "### " \o update.name \o "@" \o VersionStr(update.newVersion)
    IN  IF /\ Len(reasons.breakings) = 0
           /\ Len(reasons.deps) = 0
           /\ Len(reasons.feats) = 0
           /\ Len(reasons.fixes) = 0
        THEN <<>>
        ELSE <<head>>
             \o (IF Len(reasons.breakings) # 0
                 THEN <<padding \o " BREAKING CHANGES", "">> \o LogAll(reasons.breakings)
                 ELSE <<>>)
             \o (IF Len(reasons.feats) # 0
                 THEN <<padding \o " Features", "">> \o LogAll(reasons.feats)
                 ELSE <<>>)
             \o (IF Len(reasons.fixes) # 0
                 THEN <<padding \o " Bug Fixes", "">> \o LogAll(reasons.fixes)
                 ELSE <<>>)
             \o (IF Len(reasons.deps) # 0
                 THEN <<padding \o " Dependencies Updates", "">>
                      \o [i \in 1..Len(reasons.deps) |-> DepLine(reasons.deps[i])]
                 ELSE <<>>)

\* Array.prototype.slice(0, start) and slice(start), for start >= 0
SliceTo(lines, start) == SubSeq(lines, 1, Min(start, Len(lines)))
SliceFrom(lines, start) == SubSeq(lines, Min(start, Len(lines)) + 1, Len(lines))

\* the line at the insertion point is replaced instead of kept
InsertAtOffByOne(changelogLines, start, text) ==
    SliceTo(changelogLines, start) \o Split(text) \o SliceFrom(changelogLines, start + 1)

\* src/src/index.ts:243 and :287: the pieces of the new file
InsertAt(changelogLines, start, text) ==
    SliceTo(changelogLines, start) \o Split(text) \o SliceFrom(changelogLines, start)

\* src/src/index.ts:278-281
RECURSIVE RenderAll(_)
RenderAll(us) ==
    IF us = <<>> THEN <<>> ELSE RenderChangelog(Head(us), FALSE) \o RenderAll(Tail(us))

RootBody(totalVersion, us) == <<"", "## " \o VersionStr(totalVersion)>> \o RenderAll(us)

\* the least severe level of the updates is taken
RECURSIVE MaxLevel(_)
MaxLevel(us) ==
    IF us = <<>> THEN NoBump
    ELSE IF Tail(us) = <<>> THEN Head(us).bumpLevel
    ELSE LET rest == MaxLevel(Tail(us))
         IN  IF Head(us).bumpLevel > rest THEN Head(us).bumpLevel ELSE rest

\* src/src/index.ts:271: Math.min of no argument is Infinity, here NoBump
RECURSIVE MinLevel(_)
MinLevel(us) ==
    IF us = <<>> THEN NoBump ELSE Min(Head(us).bumpLevel, MinLevel(Tail(us)))

\* ------------------------------------------------------------------ state

VARIABLES
    isMonorepo,          \* main: packagesNames.length > 0
    packages,            \* the package names read by main, in input order
    pkgVersion,          \* packageJson.version of each package as read
    pkgDeps,             \* Object.keys(packageJson.dependencies) of each package
    history,             \* the commits the commit source yields for each package
    changelogStartIndex, \* the changelog-start-at input
    runsLeft,            \* the runs the release pipeline still makes after this one
    startDisk,           \* the versions and changelogs on disk when this run began
    diskVersion,         \* version in each package.json on disk ("root": the root's)
    diskChangelog,       \* CHANGELOG.md of each directory: Undefined or Some(lines)
    fileWrites,          \* the files written so far by this run
    writeLog,            \* the CHANGELOG.md writes of all runs, in order
    outputs,             \* Undefined, or Some of the outputs set by setOutput
    pc,                  \* where main is
    mainIdx,             \* main's loop index (over packages, then over updates)
    mainAwait,           \* the promise main awaits while resolving
    dict,                \* calculatePackagesUpdate: the names of the run
    visited,             \* names with a cached calculateBump promise
    cbState,             \* calculateBump of each name: its task and promise
    gpState,             \* the promise of the getPackageBump call that computes a name
    awaitOf,             \* the promise calculateBump of a name awaits in its loop
    depIdx,              \* the index of the dependency calculateBump is at
    suggestion,          \* the resolved getBumpSuggestion of each name
    depsUpdates,         \* calculateBump's depsUpdates of each name
    result,              \* the value calculateBump's promise is fulfilled with
    updates,             \* calculatePackagesUpdate's updates
    queryCount           \* getBumpSuggestion calls made for each name

inputs == <<isMonorepo, packages, pkgVersion, pkgDeps, history, changelogStartIndex,
            runsLeft, startDisk>>
disk == <<diskVersion, diskChangelog, fileWrites, writeLog, outputs>>
tasks == <<dict, visited, cbState, gpState, awaitOf, depIdx, suggestion, depsUpdates,
           result, queryCount>>
vars == <<inputs, disk, pc, mainIdx, mainAwait, tasks, updates>>

Dirs == NameSet \cup {RootName}

\* the names of the packages of the run
PkgSet == {packages[i] : i \in 1..Len(packages)}

NoPromise == [kind |-> "none", name |-> ""]
Fresh(m) == [kind |-> "fresh", name |-> m]
CachedPromise(m) == [kind |-> "cached", name |-> m]

NoSuggestion == [level |-> Undefined, reasons |-> Undefined]
NoUpdate == [name |-> "", version |-> Null, bumpLevel |-> NoBump, newVersion |-> Null,
             reasons |-> EmptyReasons]

\* ------------------------------------------------------------ scenarios

\* dependency lists: each a sequence of distinct names, MaxEdges entries in all
DepLists(n) ==
    LET targets == NameSet
        lists == {s \in SeqsUpTo(targets, Min(MaxEdges, Len(Names))) :
                     \A i, j \in 1..Len(s) : i # j => s[i] # s[j]}
    IN  {d \in [NameSet -> lists] :
            /\ \A i \in 1..Len(Names) : i > n => d[Names[i]] = <<>>
            /\ Len(d[Names[1]]) + Len(d[Names[2]]) + Len(d[Names[3]]) <= MaxEdges}

DefaultVersion == [m \in NameSet |->
    CASE m = "a" -> SemVer(1, 2, 3) [] m = "b" -> SemVer(0, 1, 0) [] OTHER -> SemVer(2, 0, 9)]
DefaultRootVersion == SemVer(1, 0, 0)
OldChangelog == <<"# Changelog", "## 0.0.1", "">>

\* the contents of a CHANGELOG.md drawn in the changelog scenarios: no file, an
\* empty file, a file of one line without newline at its end, a longer file
FileContents == {Undefined, Some(<<"">>), Some(<<"# Changelog">>), Some(OldChangelog)}

\* the part of Init every scenario shares: nothing has run
InitRun ==
    /\ startDisk = [version |-> diskVersion, changelog |-> diskChangelog]
    /\ writeLog = <<>>
    /\ fileWrites = {}
    /\ outputs = Undefined
    /\ pc = "start"
    /\ mainIdx = 0
    /\ mainAwait = NoPromise
    /\ dict = {}
    /\ visited = {}
    /\ cbState = [m \in NameSet |-> "none"]
    /\ gpState = [m \in NameSet |-> "none"]
    /\ awaitOf = [m \in NameSet |-> NoPromise]
    /\ depIdx = [m \in NameSet |-> 0]
    /\ suggestion = [m \in NameSet |-> NoSuggestion]
    /\ depsUpdates = [m \in NameSet |-> <<>>]
    /\ result = [m \in NameSet |-> NoUpdate]
    /\ updates = <<>>
    /\ queryCount = [m \in NameSet |-> 0]

\* several packages and any dependency graph among them, cycles included
InitGraph ==
    /\ isMonorepo = TRUE
    /\ \E n \in 1..Len(Names) :
        /\ packages = SubSeq(Names, 1, n)
        /\ pkgDeps \in DepLists(n)
        /\ history \in {h \in [NameSet -> RunHistories \cup {<<>>}] :
                           \A i \in 1..Len(Names) : (i > n) <=> (h[Names[i]] = <<>>)}
    /\ pkgVersion = DefaultVersion
    /\ diskVersion = [d \in Dirs |-> IF d = RootName THEN DefaultRootVersion ELSE DefaultVersion[d]]
    /\ changelogStartIndex = 0
    /\ diskChangelog \in {[d \in Dirs |-> c] : c \in {Undefined, Some(OldChangelog)}}
    /\ runsLeft = 0

\* one package, in either mode, with any history up to MaxCommits commits
InitHistory ==
    /\ isMonorepo \in BOOLEAN
    /\ packages = <<Names[1]>>
    /\ pkgDeps \in {[m \in NameSet |-> IF m = Names[1] THEN l ELSE <<>>] : l \in {<<>>, <<External>>}}
    /\ history \in {[m \in NameSet |-> IF m = Names[1] THEN h ELSE <<>>] :
                       h \in SeqsUpTo(Commits, MaxCommits)}
    /\ pkgVersion = DefaultVersion
    /\ diskVersion = [d \in Dirs |-> IF d = RootName THEN DefaultRootVersion ELSE DefaultVersion[d]]
    /\ changelogStartIndex = 0
    /\ diskChangelog \in {[d \in Dirs |-> c] : c \in {Undefined, Some(OldChangelog)}}
    /\ runsLeft = 0

\* one package, in either mode, with any version, parsing or not
InitVersion ==
    /\ isMonorepo \in BOOLEAN
    /\ packages = <<Names[1]>>
    /\ pkgDeps = [m \in NameSet |-> <<>>]
    /\ history \in {[m \in NameSet |-> IF m = Names[1] THEN h ELSE <<>>] : h \in RunHistories}
    /\ \E v \in AllSemVers \cup {Garbage}, r \in AllSemVers \cup {Garbage} :
        /\ pkgVersion = [m \in NameSet |-> IF m = Names[1] THEN v ELSE DefaultVersion[m]]
        /\ diskVersion = [d \in Dirs |-> IF d = RootName THEN r
                                         ELSE IF d = Names[1] THEN v ELSE DefaultVersion[d]]
        /\ (~isMonorepo => r = DefaultRootVersion)
    /\ changelogStartIndex = 0
    /\ diskChangelog \in {[d \in Dirs |-> c] : c \in {Undefined, Some(OldChangelog)}}
    /\ runsLeft = 0

\* one package, in either mode, with any changelog content and insertion
\* line, in a pipeline that runs the action a second time
InitFiles ==
    /\ isMonorepo \in BOOLEAN
    /\ packages = <<Names[1]>>
    /\ pkgDeps = [m \in NameSet |-> <<>>]
    /\ history \in {[m \in NameSet |-> IF m = Names[1] THEN h ELSE <<>>] : h \in RunHistories}
    /\ pkgVersion = DefaultVersion
    /\ diskVersion = [d \in Dirs |-> IF d = RootName THEN DefaultRootVersion ELSE DefaultVersion[d]]
    /\ changelogStartIndex \in 0..MaxStart
    /\ diskChangelog \in {[d \in Dirs |-> c] : c \in FileContents}
    /\ runsLeft = 1

Init == (InitGraph \/ InitHistory \/ InitVersion \/ InitFiles) /\ InitRun

\* ------------------------------------------------------------- promises

\* the cache is never hit
CachedNever(m) == FALSE

\* src/src/index.ts:210-211: visited[name] holds a promise
Cached(m) == m \in visited

\* a cached entry never settles for the caller that got it from the cache
PromiseStateCachedPending(p) ==
    CASE p.kind = "fresh" -> gpState[p.name]
      [] OTHER -> "pending"

\* a cached entry counts as settled as soon as it exists
PromiseStateOptimistic(p) ==
    CASE p.kind = "fresh" -> gpState[p.name]
      [] p.kind = "cached" ->
            IF cbState[p.name] = "rejected" THEN "rejected"
            ELSE IF cbState[p.name] # "none" THEN "fulfilled" ELSE "pending"
      [] OTHER -> "pending"

\* the state of an awaited promise: a call that computes a name settles after
\* its push (:217-219), a call that returns the cached promise settles with it
PromiseState(p) ==
    CASE p.kind = "fresh" -> gpState[p.name]
      [] p.kind = "cached" ->
            IF cbState[p.name] \in {"fulfilled", "rejected"} THEN cbState[p.name] ELSE "pending"
      [] OTHER -> "pending"

\* getPackageBump, src/src/index.ts:209-216, up to its await: the promise the
\* caller gets, and the task and query a first call starts
GetPackageBump(m) == IF Cached(m) THEN CachedPromise(m) ELSE Fresh(m)

VisitedAfter(v, m) == IF Cached(m) THEN v ELSE v \cup {m}
CbAfter(cb, m) == IF Cached(m) THEN cb ELSE [cb EXCEPT ![m] = "query"]
GpAfter(gp, m) == IF Cached(m) THEN gp ELSE [gp EXCEPT ![m] = "pending"]
QueriesAfter(q, m) == IF Cached(m) THEN q ELSE [q EXCEPT ![m] = @ + 1]

\* src/src/index.ts:182-184: the next key at or after k that names a package
\* of the run, 0 when there is none
NextLocal(n, k) ==
    LET js == {j \in k..Len(pkgDeps[n]) : pkgDeps[n][j] \in dict}
    IN  IF js = {} THEN 0 ELSE CHOOSE j \in js : \A i \in js : j <= i

\* src/src/index.ts:190-206
MakeUpdate(n, sug, du) ==
    LET bumpLevel == BumpLevel(sug, du)
    IN  [name |-> n,
         version |-> pkgVersion[n],
         bumpLevel |-> bumpLevel,
         newVersion |-> NewVersion(pkgVersion[n], bumpLevel),
         reasons |-> Reasons(sug, du)]

\* calculateBump of n from key k of its loop on, with depsUpdates du: it
\* awaits the next internal dependency, or returns (src/src/index.ts:181-206)
Continue(n, k, sug, du) ==
    LET j == NextLocal(n, k)
    IN  /\ depsUpdates' = [depsUpdates EXCEPT ![n] = du]
        /\ IF j = 0
           THEN /\ cbState' = [cbState EXCEPT ![n] = "fulfilled"]
                /\ result' = [result EXCEPT ![n] = MakeUpdate(n, sug, du)]
                /\ UNCHANGED <<visited, gpState, awaitOf, depIdx, queryCount>>
           ELSE LET m == pkgDeps[n][j]
                IN  /\ awaitOf' = [awaitOf EXCEPT ![n] = GetPackageBump(m)]
                    /\ depIdx' = [depIdx EXCEPT ![n] = j]
                    /\ cbState' = CbAfter([cbState EXCEPT ![n] = "deps"], m)
                    /\ visited' = VisitedAfter(visited, m)
                    /\ gpState' = GpAfter(gpState, m)
                    /\ queryCount' = QueriesAfter(queryCount, m)
                    /\ UNCHANGED result

\* ---------------------------------------------------------------- actions

\* main calls calculatePackagesUpdate (src/src/index.ts:262, :222-227): the
\* dictionary is built and the first package requested
CalculatePackagesUpdate ==
    /\ pc = "start"
    /\ pc' = "resolve"
    /\ dict' = {packages[i] : i \in 1..Len(packages)}
    /\ mainIdx' = 1
    /\ mainAwait' = GetPackageBump(packages[1])
    /\ visited' = VisitedAfter(visited, packages[1])
    /\ cbState' = CbAfter(cbState, packages[1])
    /\ gpState' = GpAfter(gpState, packages[1])
    /\ queryCount' = QueriesAfter(queryCount, packages[1])
    /\ UNCHANGED <<inputs, disk, awaitOf, depIdx, suggestion, depsUpdates, result, updates>>

\* the commit source answers (src/src/bump.ts:63-78, src/src/index.ts:105-108)
\* and calculateBump goes on after its first await (:178)
QueryResolve(n) ==
    /\ cbState[n] = "query"
    /\ LET sug == WhatBump(history[n])
       IN  /\ suggestion' = [suggestion EXCEPT ![n] = sug]
           /\ Continue(n, 1, sug, <<>>)
    /\ UNCHANGED <<inputs, disk, pc, mainIdx, mainAwait, dict, updates>>

\* the tag or commit source fails (src/src/bump.ts:45-47, src/src/index.ts:106):
\* the await at :178 throws
QueryReject(n) ==
    /\ cbState[n] = "query"
    /\ cbState' = [cbState EXCEPT ![n] = "rejected"]
    /\ UNCHANGED <<inputs, disk, pc, mainIdx, mainAwait, dict, visited, gpState, awaitOf,
                   depIdx, suggestion, depsUpdates, result, queryCount, updates>>

\* the await of a dependency at src/src/index.ts:185 returns or throws
DepResume(n) ==
    /\ cbState[n] = "deps"
    /\ PromiseState(awaitOf[n]) \in {"fulfilled", "rejected"}
    /\ IF PromiseState(awaitOf[n]) = "rejected"
       THEN /\ cbState' = [cbState EXCEPT ![n] = "rejected"]
            /\ UNCHANGED <<visited, gpState, awaitOf, depIdx, depsUpdates, result, queryCount>>
       ELSE Continue(n, depIdx[n] + 1, suggestion[n],
                     Append(depsUpdates[n], result[awaitOf[n].name]))
    /\ UNCHANGED <<inputs, disk, pc, mainIdx, mainAwait, dict, suggestion, updates>>

\* a package is recorded in front of the packages recorded so far
PushFront(us, update) == <<update>> \o us

\* the push is guarded by the cache entry, which is always there
PushUnlessVisited(us, update) == IF update.name \in visited THEN us ELSE Append(us, update)

\* src/src/index.ts:218
Push(us, update) == Append(us, update)

\* the await of getPackageBump at src/src/index.ts:217 returns or throws
GetPackageBumpResume(n) ==
    /\ gpState[n] = "pending"
    /\ cbState[n] \in {"fulfilled", "rejected"}
    /\ IF cbState[n] = "fulfilled"
       THEN /\ updates' = Push(updates, result[n])
            /\ gpState' = [gpState EXCEPT ![n] = "fulfilled"]
       ELSE /\ gpState' = [gpState EXCEPT ![n] = "rejected"]
            /\ UNCHANGED updates
    /\ UNCHANGED <<inputs, disk, pc, mainIdx, mainAwait, dict, visited, cbState, awaitOf,
                   depIdx, suggestion, depsUpdates, result, queryCount>>

\* the await of the loop at src/src/index.ts:226-228 returns: the next
\* package is requested, or calculatePackagesUpdate returns to main
ResolveNext ==
    /\ pc = "resolve"
    /\ PromiseState(mainAwait) = "fulfilled"
    /\ IF mainIdx < Len(packages)
       THEN LET m == packages[mainIdx + 1]
            IN  /\ mainIdx' = mainIdx + 1
                /\ mainAwait' = GetPackageBump(m)
                /\ visited' = VisitedAfter(visited, m)
                /\ cbState' = CbAfter(cbState, m)
                /\ gpState' = GpAfter(gpState, m)
                /\ queryCount' = QueriesAfter(queryCount, m)
                /\ pc' = pc
       ELSE /\ pc' = IF Len(updates) > 0 THEN "update" ELSE "finish"
            /\ mainIdx' = 1
            /\ mainAwait' = NoPromise
            /\ UNCHANGED <<visited, cbState, gpState, queryCount>>
    /\ UNCHANGED <<inputs, disk, dict, awaitOf, depIdx, suggestion, depsUpdates, result, updates>>

\* the error is caught and main goes on with the updates it has
ResolveFailIgnored ==
    /\ pc = "resolve"
    /\ PromiseState(mainAwait) = "rejected"
    /\ pc' = IF Len(updates) > 0 THEN "update" ELSE "finish"
    /\ mainIdx' = 1
    /\ UNCHANGED <<inputs, disk, mainAwait, tasks, updates>>

\* the await of the loop throws: main's promise is rejected and nothing
\* after src/src/index.ts:262 runs
ResolveFail ==
    /\ pc = "resolve"
    /\ PromiseState(mainAwait) = "rejected"
    /\ pc' = "failed"
    /\ UNCHANGED <<inputs, disk, mainIdx, mainAwait, tasks, updates>>

\* updatePackageContent, src/src/index.ts:233-247, for the next update of
\* main's loop (:264-266)
UpdatePackageContent ==
    /\ pc = "update"
    /\ LET update == updates[mainIdx]
           changelog == diskChangelog[update.name]
           newChangelog == RenderChangelog(update, TRUE)
       IN  /\ diskVersion' = [diskVersion EXCEPT ![update.name] = update.newVersion]
           /\ IF changelog # Undefined /\ newChangelog # <<>>
              THEN /\ diskChangelog' = [diskChangelog EXCEPT ![update.name] =
                          Some(InsertAt(changelog[1], changelogStartIndex, newChangelog))]
                   /\ fileWrites' = fileWrites \cup {<<"package.json", update.name>>,
                                                     <<"CHANGELOG.md", update.name>>}
                   /\ writeLog' = Append(writeLog, [dir |-> update.name,
                                                     before |-> changelog[1],
                                                     text |-> newChangelog,
                                                     data |-> diskChangelog'[update.name][1]])
              ELSE /\ UNCHANGED <<diskChangelog, writeLog>>
                   /\ fileWrites' = fileWrites \cup {<<"package.json", update.name>>}
    /\ IF mainIdx < Len(updates)
       THEN mainIdx' = mainIdx + 1 /\ pc' = pc
       ELSE mainIdx' = mainIdx /\ pc' = "finish"
    /\ UNCHANGED <<inputs, outputs, mainAwait, tasks, updates>>

\* src/src/index.ts:268-295 and :304-306: the root's manifest and changelog
\* and the outputs of a run over the `packages` input
FinishMonorepo ==
    /\ pc = "finish"
    /\ isMonorepo
    /\ LET totalBumpLevel == MinLevel(updates)
           releaseType == GetReleaseType(totalBumpLevel)
           totalVersion == NewVersion(diskVersion[RootName], totalBumpLevel)
           body == RootBody(totalVersion, updates)
           changelog == diskChangelog[RootName]
       IN  /\ diskVersion' = [diskVersion EXCEPT ![RootName] = totalVersion]
           /\ IF changelog # Undefined
              THEN /\ diskChangelog' = [diskChangelog EXCEPT ![RootName] =
                          Some(InsertAt(changelog[1], changelogStartIndex, body))]
                   /\ fileWrites' = fileWrites \cup {<<"package.json", RootName>>,
                                                     <<"CHANGELOG.md", RootName>>}
                   /\ writeLog' = Append(writeLog, [dir |-> RootName,
                                                     before |-> changelog[1],
                                                     text |-> body,
                                                     data |-> diskChangelog'[RootName][1]])
              ELSE /\ UNCHANGED <<diskChangelog, writeLog>>
                   /\ fileWrites' = fileWrites \cup {<<"package.json", RootName>>}
           /\ outputs' = IF releaseType # ""
                         THEN Some([release |-> TRUE, version |-> OutputValue(totalVersion),
                                    changelog |-> body])
                         ELSE Some([release |-> FALSE, version |-> "", changelog |-> <<>>])
    /\ pc' = "done"
    /\ UNCHANGED <<inputs, mainIdx, mainAwait, tasks, updates>>

\* src/src/index.ts:296-306: the outputs of a run over the root alone
FinishSingle ==
    /\ pc = "finish"
    /\ ~isMonorepo
    /\ outputs' = IF Len(updates) = 1
                  THEN Some([release |-> TRUE, version |-> OutputValue(updates[1].newVersion),
                             changelog |-> RenderChangelog(updates[1], TRUE)])
                  ELSE Some([release |-> FALSE, version |-> "", changelog |-> <<>>])
    /\ pc' = "done"
    /\ UNCHANGED <<inputs, diskVersion, diskChangelog, fileWrites, writeLog, mainIdx,
                   mainAwait, tasks, updates>>

\* the pipeline runs the action again: main reads the manifests the last run
\* left (src/src/index.ts:150-158, :257-260) and the commit source yields the
\* commits made since
Rerun ==
    /\ pc = "done"
    /\ runsLeft > 0
    /\ runsLeft' = runsLeft - 1
    /\ pkgVersion' = [m \in NameSet |-> diskVersion[m]]
    /\ history' \in {h \in [NameSet -> RunHistories \cup {<<>>}] :
                        \A m \in NameSet : (m \in PkgSet) <=> (h[m] # <<>>)}
    /\ startDisk' = [version |-> diskVersion, changelog |-> diskChangelog]
    /\ fileWrites' = {}
    /\ outputs' = Undefined
    /\ pc' = "start"
    /\ mainIdx' = 0
    /\ mainAwait' = NoPromise
    /\ dict' = {}
    /\ visited' = {}
    /\ cbState' = [m \in NameSet |-> "none"]
    /\ gpState' = [m \in NameSet |-> "none"]
    /\ awaitOf' = [m \in NameSet |-> NoPromise]
    /\ depIdx' = [m \in NameSet |-> 0]
    /\ suggestion' = [m \in NameSet |-> NoSuggestion]
    /\ depsUpdates' = [m \in NameSet |-> <<>>]
    /\ result' = [m \in NameSet |-> NoUpdate]
    /\ updates' = <<>>
    /\ queryCount' = [m \in NameSet |-> 0]
    /\ UNCHANGED <<isMonorepo, packages, pkgDeps, changelogStartIndex, diskVersion,
                   diskChangelog, writeLog>>

Next ==
    \/ CalculatePackagesUpdate
    \/ \E n \in NameSet : QueryResolve(n)
    \/ \E n \in NameSet : QueryReject(n)
    \/ \E n \in NameSet : DepResume(n)
    \/ \E n \in NameSet : GetPackageBumpResume(n)
    \/ ResolveNext
    \/ ResolveFail
    \/ UpdatePackageContent
    \/ FinishMonorepo
    \/ FinishSingle
    \/ Rerun

Spec == Init /\ [][Next]_vars

\* the commit source answers every query in the end (src/src/bump.ts:63-78),
\* and the event loop runs every continuation whose awaited promise has
\* settled; a query may still fail, and the pipeline need not run again
Fairness ==
    /\ \A n \in NameSet : WF_vars(QueryResolve(n))
    /\ \A n \in NameSet : WF_vars(DepResume(n))
    /\ \A n \in NameSet : WF_vars(GetPackageBumpResume(n))
    /\ WF_vars(CalculatePackagesUpdate)
    /\ WF_vars(ResolveNext)
    /\ WF_vars(ResolveFail)
    /\ WF_vars(UpdatePackageContent)
    /\ WF_vars(FinishMonorepo)
    /\ WF_vars(FinishSingle)

\* the graphs of InitGraph with one history for all packages, and the
\* scenarios of InitFiles: termination does not depend on what the commits are
InitGraphUniform ==
    /\ InitGraph
    /\ \A i, j \in 1..Len(packages) : history[packages[i]] = history[packages[j]]

FairInit == (InitGraphUniform \/ InitFiles) /\ InitRun

FairSpec == FairInit /\ [][Next]_vars /\ Fairness

\* ------------------------------------------------- vocabulary of the claims

\* the internal dependencies of a package: its keys that name a package of the run
InternalDeps(n) == {pkgDeps[n][j] : j \in 1..Len(pkgDeps[n])} \cap PkgSet

RECURSIVE ReachIn(_, _)
ReachIn(S, k) ==
    IF k = 0 THEN S
    ELSE ReachIn(S \cup UNION {InternalDeps(m) : m \in S}, k - 1)

\* the transitive internal dependencies of a package
TransitiveDeps(n) == ReachIn(InternalDeps(n), Len(Names))

Acyclic == \A n \in PkgSet : n \notin TransitiveDeps(n)

\* the severity a package's own commits warrant
OwnLevel(n) == Coalesce(suggestion[n].level, 3)

\* calculatePackagesUpdate has returned to main
Resolved == pc \in {"update", "finish", "done"}

\* the packages that have m among their internal dependencies
Dependents(m) == {n \in PkgSet : m \in InternalDeps(n)}

\* ------------------------------------------------------------------ C1

\* C1: in a run over an acyclic package set getBumpSuggestion is never called
\* twice for one name, is never called for a name outside the run, and has been
\* called exactly once for every package when calculatePackagesUpdate returns.
C1_QueryOncePerName ==
    Acyclic =>
        /\ \A n \in NameSet : queryCount[n] <= 1
        /\ \A n \in NameSet \ PkgSet : queryCount[n] = 0
        /\ Resolved => \A n \in PkgSet : queryCount[n] = 1

\* a finished run in which a listed package is an internal dependency of two
\* other packages
C1_Witness ==
    /\ pc = "done"
    /\ \E m \in PkgSet : Cardinality(Dependents(m) \ {m}) >= 2 /\ queryCount[m] = 1

\* ------------------------------------------------------------------ C2

\* calculateBump of n has returned with exactly one internal dependency, which
\* resolved to Minor, and own commits that warrant Major
MajorOverMinorDep(n) ==
    /\ cbState[n] = "fulfilled"
    /\ OwnLevel(n) = Major
    /\ Len(depsUpdates[n]) = 1
    /\ depsUpdates[n][1].bumpLevel = Minor

ForcedByDependency(n) ==
    /\ cbState[n] = "fulfilled"
    /\ OwnLevel(n) = NoBump
    /\ \E i \in 1..Len(depsUpdates[n]) : depsUpdates[n][i].bumpLevel # NoBump

\* C3: a package with no qualifying commit of its own and a bumped internal
\* dependency resolves to Patch and its version grows at the patch position only;
\* a dependency of it that resolved to Minor has its version grown at the minor
\* position; and the finished run sets the release output to true.
C3_DependencyForcedPatch ==
    \A n \in PkgSet : ForcedByDependency(n) =>
        /\ result[n].bumpLevel = Patch
        /\ pkgVersion[n].kind = "semver" =>
              result[n].newVersion =
                  SemVer(pkgVersion[n].v[1], pkgVersion[n].v[2], pkgVersion[n].v[3] + 1)
        /\ \A i \in 1..Len(depsUpdates[n]) :
              LET dep == depsUpdates[n][i]
              IN  (dep.bumpLevel = Minor /\ dep.version.kind = "semver") =>
                      dep.newVersion = SemVer(dep.version.v[1], dep.version.v[2] + 1, 0)
        /\ pc = "done" => (outputs # Undefined /\ outputs[1].release = TRUE)

\* the end-to-end scenario: A without qualifying commits depends on B with one
\* feat commit, and the run has finished
C3_Witness ==
    /\ pc = "done"
    /\ \E n \in PkgSet :
        /\ ForcedByDependency(n)
        /\ \E i \in 1..Len(depsUpdates[n]) :
              /\ depsUpdates[n][i].bumpLevel = Minor
              /\ history[depsUpdates[n][i].name] = <<Commit("feat", FALSE)>>

\* ------------------------------------------------------------------ C4

\* C4 as stated: when no internal dependency of a package bumped (it has none, or
\* all of them resolved to None), the package resolves to the severity of its own
\* commits, and with no qualifying commit it keeps its version.
C4_Claim ==
    \A n \in PkgSet :
        (/\ cbState[n] = "fulfilled"
         /\ \A i \in 1..Len(depsUpdates[n]) : depsUpdates[n][i].bumpLevel = NoBump) =>
            /\ result[n].bumpLevel = OwnLevel(n)
            /\ OwnLevel(n) = NoBump => result[n].newVersion = pkgVersion[n]

\* ------------------------------------------------------------------ C5

\* a commit that qualifies for a release
Qualifying(c) == c.breaking \/ c.type \in {"feat", "fix"}

\* no package of the run has a qualifying commit
NoQualifyingCommit ==
    \A n \in PkgSet : \A i \in 1..Len(history[n]) : ~Qualifying(history[n][i])

\* C5 as stated: the release output of a finished run is true exactly when the
\* most severe level among the resolved packages is not None; and a run without
\* qualifying commit and without bumped dependency publishes release = false and
\* an empty changelog, in single-package and in multi-package mode.
C5_Claim ==
    pc = "done" =>
        /\ outputs[1].release <=> (MinLevel(updates) # NoBump)
        /\ (\A i \in 1..Len(updates) : updates[i].bumpLevel = NoBump) =>
              (outputs[1].release = FALSE /\ outputs[1].changelog = <<>>)

\* ------------------------------------------------------------------ C6

\* the internal dependencies whose await in calculateBump of n has returned a value
ObservedBy(n) ==
    {pkgDeps[n][j] : j \in {i \in 1..Len(pkgDeps[n]) :
        /\ pkgDeps[n][i] \in dict
        /\ \/ cbState[n] = "fulfilled"
           \/ cbState[n] \in {"deps", "rejected"} /\ i < depIdx[n]}}

\* the packages whose await in the loop of calculatePackagesUpdate has returned
ObservedByMain ==
    IF Resolved THEN PkgSet
    ELSE IF pc \in {"resolve", "failed"} THEN {packages[i] : i \in 1..(mainIdx - 1)}
    ELSE {}

\* the own query of m has completed and calculateBump of m and of all its
\* transitive internal dependencies has returned
Complete(m) ==
    /\ queryCount[m] >= 1
    /\ cbState[m] = "fulfilled"
    /\ \A d \in TransitiveDeps(m) : queryCount[d] >= 1 /\ cbState[d] = "fulfilled"

\* C6: whenever the await of a package's result has returned in a dependent (or
\* in the top-level loop), by the computing or by the cached path, that package's
\* own query and the results of all its transitive internal dependencies are
\* complete, and the value the dependent holds is the completed result.
C6_CompletionIsJoin ==
    /\ \A n \in PkgSet : \A m \in ObservedBy(n) : Complete(m)
    /\ \A m \in ObservedByMain : Complete(m)
    /\ \A n \in PkgSet : \A i \in 1..Len(depsUpdates[n]) :
          /\ depsUpdates[n][i].name \in InternalDeps(n)
          /\ depsUpdates[n][i] = result[depsUpdates[n][i].name]

\* one dependent got a result from the computing call, another from the cache,
\* and the result it got has dependencies of its own
C6_Witness ==
    \E n1, n2 \in PkgSet :
        /\ cbState[n1] = "fulfilled" /\ awaitOf[n1].kind = "fresh"
        /\ cbState[n2] = "fulfilled" /\ awaitOf[n2].kind = "cached"
        /\ InternalDeps(awaitOf[n2].name) # {}

\* ------------------------------------------------------------------ C7

\* C7: when calculatePackagesUpdate has returned over an acyclic package set,
\* updates holds exactly one result per package name of the run, each the result
\* calculateBump returned for that name.
C7_OneResultPerName ==
    (Acyclic /\ Resolved) =>
        /\ Len(updates) = Cardinality(PkgSet)
        /\ \A m \in PkgSet :
              Cardinality({i \in 1..Len(updates) : updates[i].name = m}) = 1
        /\ \A i \in 1..Len(updates) : updates[i] = result[updates[i].name]

\* a finished run in which a package is requested by the top-level loop after
\* it was computed as a dependency, and is a dependency of two packages
C7_Witness ==
    /\ pc = "done"
    /\ \E j \in 2..Len(packages) :
          /\ Cardinality(Dependents(packages[j]) \ {packages[j]}) >= 2
          /\ \E i \in 1..(j - 1) : packages[j] \in InternalDeps(packages[i])
          /\ Cardinality({i \in 1..Len(updates) : updates[i].name = packages[j]}) = 1

\* ------------------------------------------------------------------ C8

\* the own query of n has resolved
QueryDone(n) == cbState[n] \in {"deps", "fulfilled"}

\* the rule of the Severity Resolver, first match wins
ResolverRule(commits) ==
    IF \E i \in 1..Len(commits) : commits[i].breaking THEN Major
    ELSE IF \E i \in 1..Len(commits) : commits[i].type = "feat" THEN Minor
    ELSE IF \E i \in 1..Len(commits) : commits[i].type \in {"fix", "refactor"} THEN Patch
    ELSE NoBump

\* C8: the own severity a resolved query yields is Major if any commit of the
\* history is breaking-marked, wherever it stands, else Minor if any is a feat,
\* else Patch if any is a fix or a refactor, else None.
C8_FirstMatchWins ==
    \A n \in PkgSet : QueryDone(n) => OwnLevel(n) = ResolverRule(history[n])

\* a breaking-marked commit that comes after a feat commit
C8_Witness ==
    \E n \in PkgSet :
        /\ QueryDone(n)
        /\ history[n] = <<Commit("feat", FALSE), Commit("fix", TRUE)>>
        /\ OwnLevel(n) = Major

\* ------------------------------------------------------------------ C9

\* the next version the Version Calculator is to give
NextVersionRule(v, level) ==
    CASE level = NoBump -> SemVer(v[1], v[2], v[3])
      [] level = Patch -> SemVer(v[1], v[2], v[3] + 1)
      [] level = Minor -> SemVer(v[1], v[2] + 1, 0)
      [] level = Major -> SemVer(v[1] + 1, 0, 0)

\* C9: a resolved package whose version x.y.z parses gets x.y.z for None,
\* x.y.(z+1) for Patch, x.(y+1).0 for Minor and (x+1).0.0 for Major, and that is
\* the version written to its manifest; a package without feat, fix, refactor or
\* breaking commit and without internal dependency keeps its version.
C9_NextVersion ==
    \A n \in PkgSet :
        (cbState[n] = "fulfilled" /\ pkgVersion[n].kind = "semver") =>
            /\ result[n].newVersion = NextVersionRule(pkgVersion[n].v, result[n].bumpLevel)
            /\ <<"package.json", n>> \in fileWrites => diskVersion[n] = result[n].newVersion
            /\ (ResolverRule(history[n]) = NoBump /\ InternalDeps(n) = {}) =>
                  result[n].newVersion = pkgVersion[n]

\* a major bump of 1.1.1, which resets two components, written to the manifest
C9_Witness ==
    \E n \in PkgSet :
        /\ pkgVersion[n] = SemVer(1, 1, 1)
        /\ cbState[n] = "fulfilled"
        /\ result[n].bumpLevel = Major
        /\ diskVersion[n] = SemVer(2, 0, 0)

\* ------------------------------------------------------------------ C10

\* the query of some package has failed, or a failure has reached a dependent
Failed == \E n \in NameSet : cbState[n] = "rejected"

\* C10: once a query has failed no output is set and no manifest or changelog
\* is written or changed, also not for packages already resolved; no package
\* that awaited a failed package resolves; main never gets past the resolution;
\* and the run stops only with main's promise rejected.
C10_FailureIsFatal ==
    Failed =>
        /\ outputs = Undefined
        /\ fileWrites = {}
        /\ \A n \in PkgSet : diskVersion[n] = pkgVersion[n]
        /\ diskVersion = startDisk.version
        /\ diskChangelog = startDisk.changelog
        /\ \A n \in PkgSet : cbState[n] = "fulfilled" =>
              \A m \in InternalDeps(n) : cbState[m] # "rejected"
        /\ pc \in {"resolve", "failed"}
        /\ pc = "failed" \/ ENABLED Next

\* the run has failed after a package was resolved, and the failure of a
\* dependency has rejected its dependent
C10_Witness ==
    /\ pc = "failed"
    /\ Len(updates) >= 1
    /\ \E n \in PkgSet :
          /\ cbState[n] = "rejected"
          /\ awaitOf[n].kind = "fresh"
          /\ cbState[awaitOf[n].name] = "rejected"

\* ------------------------------------------------------------------ C11

\* the write w put the pieces of its fragment (its lines and the empty piece
\* after its last newline) at line changelogStartIndex of the content read, and
\* kept every line of that content once, verbatim and in order
InsertedAt(w) ==
    LET k == Min(changelogStartIndex, Len(w.before))
        f == Len(w.text) + 1
    IN  /\ Len(w.data) = Len(w.before) + f
        /\ \A i \in 1..k : w.data[i] = w.before[i]
        /\ \A j \in 1..Len(w.text) : w.data[k + j] = w.text[j]
        /\ w.data[k + f] = ""
        /\ \A i \in (k + 1)..Len(w.before) : w.data[i + f] = w.before[i]

\* the writes i < j are successive writes of the same CHANGELOG.md
Successive(i, j) ==
    /\ i < j
    /\ writeLog[i].dir = writeLog[j].dir
    /\ \A h \in (i + 1)..(j - 1) : writeLog[h].dir # writeLog[i].dir

\* C11: every changelog write inserts the non-empty fragment at the given line
\* of the content read and keeps all lines of that content; the file holds what
\* was last written to it; and two successive runs at line 0 leave the second
\* fragment, then the first, then the original content.
C11_InsertionKeepsContent ==
    /\ \A i \in 1..Len(writeLog) :
          /\ writeLog[i].text # <<>>
          /\ InsertedAt(writeLog[i])
          /\ (\A j \in (i + 1)..Len(writeLog) : writeLog[j].dir # writeLog[i].dir) =>
                diskChangelog[writeLog[i].dir] = Some(writeLog[i].data)
    /\ \A i, j \in 1..Len(writeLog) :
          (Successive(i, j) /\ changelogStartIndex = 0) =>
              writeLog[j].data =
                  Split(writeLog[j].text) \o Split(writeLog[i].text) \o writeLog[i].before

\* the second run has inserted its fragment at line 0 of a changelog that the
\* first run had written
C11_Witness ==
    /\ changelogStartIndex = 0
    /\ \E i, j \in 1..Len(writeLog) :
          /\ Successive(i, j)
          /\ writeLog[i].before = OldChangelog
          /\ writeLog[i].text # writeLog[j].text

\* ------------------------------------------------------------------ C12

\* C12 as stated: a package whose version does not parse and whose final severity
\* is Patch, Minor or Major makes the run fail: calculateBump never returns a
\* result for it, main never gets to its writes, and its manifest stays as it was.
C12_Claim ==
    \A n \in PkgSet :
        (/\ pkgVersion[n].kind # "semver"
         /\ QueryDone(n)
         /\ BumpLevel(suggestion[n], depsUpdates[n]) # NoBump) =>
            /\ cbState[n] # "fulfilled"
            /\ ~Resolved
            /\ diskVersion[n] = pkgVersion[n]

\* ------------------------------------------------------------------ C13

\* the names in the dependency notes of the result of n
NotedDeps(n) == {result[n].reasons.deps[i].name : i \in 1..Len(result[n].reasons.deps)}

\* C13 as stated: the dependency notes of a resolved package name exactly its
\* internal dependencies that resolved to Patch or Minor, and the package is
\* raised to Patch by its dependencies only when a note was collected.
C13_Claim ==
    \A n \in PkgSet : cbState[n] = "fulfilled" =>
        /\ NotedDeps(n) = {d \in InternalDeps(n) : result[d].bumpLevel \in {Patch, Minor}}
        /\ (result[n].bumpLevel # OwnLevel(n)) => NotedDeps(n) # {}

\* ------------------------------------------------------------------ C14

\* the fragment of the i-th recorded package inside the aggregate changelog
Fragment(i) == RenderChangelog(updates[i], FALSE)

\* the number of lines the fragments before the i-th take
RECURSIVE FragmentOffset(_)
FragmentOffset(i) == IF i <= 1 THEN 0 ELSE FragmentOffset(i - 1) + Len(Fragment(i - 1))

\* text is the umbrella heading followed by the fragments in sequence order
InSequenceOrder(text) ==
    /\ Len(text) = 2 + FragmentOffset(Len(updates) + 1)
    /\ text[1] = ""
    /\ text[2] = "## " \o VersionStr(diskVersion[RootName])
    /\ \A i \in 1..Len(updates) : \A l \in 1..Len(Fragment(i)) :
           text[2 + FragmentOffset(i) + l] = Fragment(i)[l]

\* a dependency of a later package recorded before it
DependencyFirst(i, j) == i < j /\ updates[i].name \in InternalDeps(updates[j].name)

\* C14: a package is recorded when its own resolution has completed; in an
\* acyclic run every internal dependency of a recorded package is recorded
\* before it; and the aggregate changelog of a multi-package run, as output
\* and as written to the root changelog, is the umbrella heading followed by
\* the fragments of the packages in the order of the sequence.
C14_CompletionOrder ==
    /\ \A j \in 1..Len(updates) :
        /\ cbState[updates[j].name] = "fulfilled"
        /\ updates[j] = result[updates[j].name]
        /\ Acyclic => \A d \in InternalDeps(updates[j].name) :
                          \E i \in 1..Len(updates) : i < j /\ updates[i].name = d
    /\ (pc = "done" /\ isMonorepo) =>
        /\ outputs[1].release => InSequenceOrder(outputs[1].changelog)
        /\ \A w \in 1..Len(writeLog) :
               (/\ writeLog[w].dir = RootName
                /\ \A x \in (w + 1)..Len(writeLog) : writeLog[x].dir # RootName) =>
                   InSequenceOrder(writeLog[w].text)

\* a finished run that recorded a later-declared dependency first, with both
\* fragments in the aggregate changelog
C14_Witness ==
    /\ pc = "done"
    /\ isMonorepo
    /\ Acyclic
    /\ outputs[1].release
    /\ \E i, j \in 1..Len(updates) :
        /\ DependencyFirst(i, j)
        /\ \E a, b \in 1..Len(packages) :
               a < b /\ packages[a] = updates[j].name /\ packages[b] = updates[i].name
        /\ Fragment(i) # <<>>
        /\ Fragment(j) # <<>>
        /\ diskChangelog[RootName] # Undefined

\* ------------------------------------------------------------------ C15

\* nothing to show: every recorded package has an empty set of reasons
NothingToShow == \A i \in 1..Len(updates) : updates[i].reasons = EmptyReasons

\* C15 as stated: a finished run in which no package has anything to show
\* leaves every changelog file, the packages' and the root's, as the run
\* found it.
C15_Claim ==
    (pc = "done" /\ NothingToShow) =>
        \A d \in Dirs : diskChangelog[d] = startDisk.changelog[d]

\* ------------------------------------------------------------------ C16

\* n is on a cycle of internal dependency edges (a self-dependency is one)
OnCycle(n) == n \in TransitiveDeps(n)

\* n is on a cycle or depends, directly or not, on a package that is
DependsOnCycle(n) == OnCycle(n) \/ \E m \in TransitiveDeps(n) : OnCycle(m)

\* the commit query of n itself failed
QueryFailed(n) == cbState[n] = "rejected" /\ suggestion[n] = NoSuggestion

\* n awaits a cache entry that cannot complete before n does
AwaitsCycle(n) ==
    /\ cbState[n] = "deps"
    /\ awaitOf[n].kind = "cached"
    /\ cbState[awaitOf[n].name] = "deps"
    /\ n \in TransitiveDeps(awaitOf[n].name) \cup {awaitOf[n].name}

\* C16: with a cycle among the internal dependency edges, no package on the
\* cycle or depending on it ever has a completed result or is recorded, the
\* run never gets past resolution, no output is set and no file is written;
\* and no error arises except from a commit query that failed.
C16_CycleNeverCompletes ==
    /\ \A n \in PkgSet : DependsOnCycle(n) =>
        /\ cbState[n] # "fulfilled"
        /\ gpState[n] # "fulfilled"
        /\ \A i \in 1..Len(updates) : updates[i].name # n
    /\ ~Acyclic =>
        /\ ~Resolved
        /\ outputs = Undefined
        /\ fileWrites = {}
        /\ diskVersion = startDisk.version
        /\ diskChangelog = startDisk.changelog
    /\ (Failed \/ pc = "failed") => \E n \in PkgSet : QueryFailed(n)

\* the run is stuck on a cycle for good: every query has returned, none
\* failed, a package awaits a cache entry that awaits it, and no step is left
C16_Witness ==
    /\ ~Acyclic
    /\ pc = "resolve"
    /\ ~Failed
    /\ \E n \in PkgSet : AwaitsCycle(n)
    /\ \E n \in PkgSet : ~OnCycle(n) /\ DependsOnCycle(n) /\ cbState[n] = "deps"
    /\ ~ENABLED Next

\* ------------------------------------------------------------------ C17

\* the run has completed: every package has a result, is recorded, and the
\* outputs are published
Completed ==
    /\ pc = "done"
    /\ outputs # Undefined
    /\ \A n \in PkgSet :
        /\ cbState[n] = "fulfilled"
        /\ \E i \in 1..Len(updates) : updates[i].name = n

\* C17: a run over an acyclic package set, in which the commit source
\* answers every query, completes in the end with every package resolved and
\* the outputs published, unless a query fails.
C17_Termination == [](Acyclic => <>(Failed \/ Completed))

\* a completed run over an acyclic graph with a dependency edge, in which a
\* package was requested again after its result was cached
C17_Witness ==
    /\ Completed
    /\ Acyclic
    /\ ~Failed
    /\ Len(packages) = Len(Names)
    /\ \E n \in PkgSet : InternalDeps(n) # {} /\ Dependents(n) # {}

\* ------------------------------------------------------------------ C18

\* how many entries of the sequence s are the commit c
Count(c, s) == Cardinality({i \in 1..Len(s) : s[i] = c})

\* the buckets the query of n produced, none when nothing qualified
Buckets(n) == Coalesce(suggestion[n].reasons, EmptyReasons)

\* C18 as stated: a commit of the history is in at most one of the breaking,
\* feature and fix buckets.
C18_Original ==
    \A n \in PkgSet : QueryDone(n) =>
        \A c \in Commits :
            Count(c, Buckets(n).breakings) + Count(c, Buckets(n).feats)
                + Count(c, Buckets(n).fixes)
                <= Count(c, history[n])

\* C18 amended: when any commit qualifies, the feature bucket holds the
\* commits of type feat and the fix bucket those of type fix or refactor, so
\* a commit is in at most one of the two; the breaking bucket holds every
\* breaking-marked commit whatever its type, so a breaking-marked feat or
\* fix commit is in the breaking bucket and in the bucket of its type.
C18_BucketsByOwnTest ==
    \A n \in PkgSet : (QueryDone(n) /\ suggestion[n].reasons # Undefined) =>
        \A c \in Commits :
            /\ Count(c, Buckets(n).feats) =
                   IF c.type = "feat" THEN Count(c, history[n]) ELSE 0
            /\ Count(c, Buckets(n).fixes) =
                   IF c.type \in {"fix", "refactor"} THEN Count(c, history[n]) ELSE 0
            /\ Count(c, Buckets(n).breakings) =
                   IF c.breaking THEN Count(c, history[n]) ELSE 0
            /\ Count(c, Buckets(n).feats) + Count(c, Buckets(n).fixes) <= Count(c, history[n])

\* a breaking-marked feat commit, in the breaking and in the feature bucket,
\* next to a fix commit
C18_Witness ==
    \E n \in PkgSet :
        /\ QueryDone(n)
        /\ Count(Commit("feat", TRUE), Buckets(n).breakings) = 1
        /\ Count(Commit("feat", TRUE), Buckets(n).feats) = 1
        /\ Count(Commit("fix", FALSE), Buckets(n).fixes) = 1

\* ------------------------------------------------------------------ C19

\* the most severe final severity among the recorded packages
AggregateSeverity ==
    IF \E i \in 1..Len(updates) : updates[i].bumpLevel = Major THEN Major
    ELSE IF \E i \in 1..Len(updates) : updates[i].bumpLevel = Minor THEN Minor
    ELSE IF \E i \in 1..Len(updates) : updates[i].bumpLevel = Patch THEN Patch
    ELSE NoBump

\* the version the root had when the run started
RootVersion == startDisk.version[RootName]

\* the root version incremented by a severity; a version that does not parse
\* has no increment
RootNext(level) ==
    IF level = NoBump THEN RootVersion
    ELSE IF RootVersion.kind = "semver" THEN NextVersionRule(RootVersion.v, level)
    ELSE Null

\* a multi-package run has finished
MonorepoDone == pc = "done" /\ isMonorepo

InFixBucket(n, c) == Count(c, Buckets(n).fixes) > 0

\* the history of n is the commit c alone
Alone(n, c) == history[n] = <<c>>

\* C20 as stated: a commit of a history is in the fix bucket exactly when its
\* type is fix, patch or refactor, and a commit without breaking mark that is
\* alone in the history yields Patch exactly when its type is one of these.
C20_Original ==
    \A n \in PkgSet : QueryDone(n) =>
        \A c \in Commits :
            /\ Count(c, history[n]) > 0 =>
                  (InFixBucket(n, c) <=> c.type \in {"fix", "patch", "refactor"})
            /\ (Alone(n, c) /\ ~c.breaking) =>
                  (OwnLevel(n) = Patch <=> c.type \in {"fix", "patch", "refactor"})

\* C20 amended: a commit of a history is in the fix bucket exactly when its
\* type is fix or refactor, and a commit without breaking mark that is alone
\* in the history yields Patch exactly when its type is fix or refactor; a
\* commit of type patch is in no bucket and alone yields None.
C20_FixOrRefactor ==
    \A n \in PkgSet : QueryDone(n) =>
        \A c \in Commits :
            /\ Count(c, history[n]) > 0 =>
                  (InFixBucket(n, c) <=> c.type \in {"fix", "refactor"})
            /\ (Alone(n, c) /\ ~c.breaking) =>
                  (OwnLevel(n) = Patch <=> c.type \in {"fix", "refactor"})
            /\ (Alone(n, c) /\ c = Commit("patch", FALSE)) =>
                  (OwnLevel(n) = NoBump /\ Buckets(n) = EmptyReasons)

\* a history of a patch commit and a refactor commit: the refactor commit is
\* the fix bucket, and the severity is Patch
C20_Witness ==
    \E n \in PkgSet :
        /\ QueryDone(n)
        /\ history[n] = <<Commit("patch", FALSE), Commit("refactor", FALSE)>>
        /\ Buckets(n).fixes = <<Commit("refactor", FALSE)>>
        /\ OwnLevel(n) = Patch

====
